---- MODULE Spec2Model ----
(***************************************************************************)
(* Batch OCR and sheet synchronisation: the App component's state          *)
(* (images, isProcessing, sheetUrl, autoSync, urlError, showSettings,      *)
(* localStorage), its handlers (handleFileChange, removeImage, the         *)
(* clear-all button, syncToSheet, processAll / processImage) and the       *)
(* recognition service wrapper (fileToBase64, performOCR).                 *)
(*                                                                         *)
(* One action is one browser task: a user event, or the settling of a      *)
(* promise together with the whole chain of continuations that runs        *)
(* before the next task.  A handler reads the state of the render it was   *)
(* created in; processAll keeps the values it closed over (pendingImages,  *)
(* autoSync, sheetUrl) for the whole pass.                                 *)
(*                                                                         *)
(* Item ids are Math.random() strings in the source.  Spec explores the    *)
(* runs in which the ids drawn are pairwise distinct (the n-th file picked *)
(* gets id n); SpecDrawnIds explores every draw from a small set of ids.   *)
(***************************************************************************)
EXTENDS Naturals, Sequences, FiniteSets

\* ------------------------------------------------------------------ bounds
\* Number of files picked over the whole run.
MaxItems == 2
\* Number of manual sync requests in flight at the same time.
MaxInflight == 1
\* Number of user commands (picks, removals, clears, settings changes, sync
\* and batch requests) in a run; promises settle without limit.
MaxCommands == 5

\* ------------------------------------------------------------------ values
\* JavaScript's undefined (an absent optional field, a missing env variable).
Undefined == "undefined"

\* Values typed into the endpoint field: empty, whitespace only, padded url.
Urls == { <<>>, <<" ">>, <<" ", "u", " ">> }

\* Values of process.env.API_KEY in the runs explored (Undefined: not set).
ApiKeys == { "key" }

\* An optional sequence of characters: undefined / null, or a string.
None == [some |-> FALSE]
Some(s) == [some |-> TRUE, val |-> s]

\* What ai.models.generateContent does in the runs explored: it returns a
\* response whose text is a string, the empty string or undefined (throws: it
\* throws an error with that message instead).
ApiResponses ==
    { [throws |-> FALSE, text |-> Some(<<"a", "\n", "b">>), message |-> Undefined],
      [throws |-> FALSE, text |-> Some(<<>>),              message |-> Undefined],
      [throws |-> FALSE, text |-> None,                    message |-> Undefined] }

\* What the FileReader does with a file in the runs explored: it loads a data
\* url (with a comma) or fires onerror.
FileReads == { "dataurl", "onerror" }

\* JavaScript falsiness of a string-or-undefined value.
Falsy(v) == v = Undefined \/ v = ""

\* The same for an optional sequence of characters.
FalsyText(t) == ~t.some \/ t.val = <<>>

Ok(v) == [ok |-> TRUE, value |-> v]
Rejected(m) == [ok |-> FALSE, value |-> m]

\* ------------------------------------------------------------------ trim
RECURSIVE TrimStart(_)
TrimStart(s) ==
    IF s = <<>> THEN <<>>
    ELSE IF Head(s) = " " THEN TrimStart(Tail(s)) ELSE s

RECURSIVE TrimEnd(_)
TrimEnd(s) ==
    IF s = <<>> THEN <<>>
    ELSE IF s[Len(s)] = " " THEN TrimEnd(SubSeq(s, 1, Len(s) - 1)) ELSE s

\* String.prototype.trim, on a sequence of characters.
Trim(s) == TrimEnd(TrimStart(s))

\* ------------------------------------------------------------------ services
\* fileToBase64: resolves with the part after the comma, rejects with an
\* Error when there is no comma, and rejects with the reader's error event
\* (which has no message) on onerror.  value is the text or err.message.
fileToBase64(read) ==
    CASE read = "dataurl" -> Ok("base64")
      [] read = "nocomma" -> Rejected("Failed to parse file to Base64")
      [] read = "onerror" -> Rejected(Undefined)

\* Variant: the response's text is returned without the empty check.
GenerateText_NoEmptyCheck(resp) ==
    IF resp.throws THEN Rejected(resp.message) ELSE Ok(resp.text)

\* The body of performOCR's try block: generateContent, then the empty check.
GenerateText(resp) ==
    IF resp.throws THEN Rejected(resp.message)
    ELSE IF FalsyText(resp.text) THEN Rejected("Model returned an empty response.")
    ELSE Ok(resp.text)

\* performOCR: the key check, the call, and the catch that rethrows
\* error?.message || "Internal API Error".
performOCR(apiKey, resp) ==
    IF Falsy(apiKey)
    THEN Rejected("API Key is missing. Please check your environment settings.")
    ELSE LET r == GenerateText(resp)
         IN  IF r.ok THEN r
             ELSE Rejected(IF Falsy(r.value) THEN "Internal API Error" ELSE r.value)

\* The two awaits at the head of processImage's try block.
Recognize(read, apiKey, resp) ==
    LET b == fileToBase64(read)
    IN  IF b.ok THEN performOCR(apiKey, resp) ELSE b

\* The ways a recognition can settle, given the key.
Recognitions(key) ==
    { Recognize(read, key, resp) : read \in FileReads, resp \in ApiResponses }

\* ------------------------------------------------------------------ items
\* ImageFile, for the i-th file picked: previewUrl is the i-th object url the
\* browser hands out, file is fixed by it, and the id drawn is i.
NewImage(i) ==
    [id |-> i, previewUrl |-> i, status |-> "idle", syncStatus |-> "idle",
     extractedText |-> None, error |-> Undefined]

\* The value of cur while no item is being processed.
NoImage == NewImage(0)

\* { ...item, status: 'processing', error: undefined }
ToProcessing(item) == [item EXCEPT !.status = "processing", !.error = Undefined]

\* { ...img, status: 'completed', extractedText: text, syncStatus: 'idle' },
\* where img is the item as it was when the pass was started.
UpdatedImg(img, text) ==
    [img EXCEPT !.status = "completed", !.extractedText = text,
                !.syncStatus = "idle"]

\* Variant: the catch records the message but leaves the status as it is.
ToError_KeepsStatus(item, message) == [item EXCEPT !.error = message]

\* { ...item, status: 'error', error: err.message }
ToError(item, message) == [item EXCEPT !.status = "error", !.error = message]

\* Variant: a failed dispatch also fails the item's recognition.
WithSyncStatus_FailureFailsItem(item, s) ==
    [item EXCEPT !.syncStatus = s,
                 !.status = IF s = "failed" THEN "error" ELSE @]

\* { ...item, syncStatus: s }
WithSyncStatus(item, s) == [item EXCEPT !.syncStatus = s]

\* setImages(prev => prev.map(item => item.id === img.id ? ... : item)),
\* for each of the updates of processImage and syncToSheet.
MarkProcessing(imgs, i) ==
    [k \in 1..Len(imgs) |->
        IF imgs[k].id = i THEN ToProcessing(imgs[k]) ELSE imgs[k]]

\* Variant: an item that is no longer listed is put back.
ApplyCompleted_Upserts(imgs, updated) ==
    IF \E k \in 1..Len(imgs) : imgs[k].id = updated.id
    THEN [k \in 1..Len(imgs) |->
             IF imgs[k].id = updated.id THEN updated ELSE imgs[k]]
    ELSE Append(imgs, updated)

ApplyCompleted(imgs, updated) ==
    [k \in 1..Len(imgs) |->
        IF imgs[k].id = updated.id THEN updated ELSE imgs[k]]

MarkError(imgs, i, message) ==
    [k \in 1..Len(imgs) |->
        IF imgs[k].id = i THEN ToError(imgs[k], message) ELSE imgs[k]]

SetSyncStatus(imgs, i, s) ==
    [k \in 1..Len(imgs) |->
        IF imgs[k].id = i THEN WithSyncStatus(imgs[k], s) ELSE imgs[k]]

\* Variant: the pass takes every item, completed or not.
PendingImages_All(imgs) == imgs

\* Variant: the pass takes the items never processed, not the failed ones.
PendingImages_IdleOnly(imgs) ==
    LET keep(img) == img.status = "idle" IN SelectSeq(imgs, keep)

\* images.filter(img => img.status !== 'completed')
PendingImages(imgs) ==
    LET keep(img) == img.status # "completed" IN SelectSeq(imgs, keep)

\* prev.filter(img => img.id !== id)
WithoutId(imgs, i) ==
    LET keep(img) == img.id # i IN SelectSeq(imgs, keep)

Ids(imgs) == { imgs[k].id : k \in 1..Len(imgs) }

\* prev.find(img => img.id === id): the first item with that id.
Find(imgs, i) ==
    LET ks == { k \in 1..Len(imgs) : imgs[k].id = i }
    IN  imgs[CHOOSE k \in ks : \A j \in ks : k <= j]

RemoveAt(s, k) == SubSeq(s, 1, k - 1) \o SubSeq(s, k + 1, Len(s))

\* ------------------------------------------------------------------ export
\* img.file.name: the name of the file behind the i-th object url.
Digits == << "1", "2", "3", "4", "5", "6", "7", "8", "9" >>
FileName(img) == << "f", Digits[img.previewUrl] >>

\* The header of copyAllForExcel: three column labels (file name, extracted
\* content, time of processing), tabs between them, a newline at the end.
Header == << "label1", "\t", "label2", "\t", "label3", "\n" >>

\* img.extractedText || ""
TextOrEmpty(t) == IF FalsyText(t) THEN <<>> ELSE t.val

\* Variant: replace without the g flag, which stops after the first match.
RECURSIVE ReplaceNewlines_FirstOnly(_)
ReplaceNewlines_FirstOnly(t) ==
    IF t = <<>> THEN <<>>
    ELSE IF Head(t) = "\n" THEN << " " >> \o Tail(t)
    ELSE << Head(t) >> \o ReplaceNewlines_FirstOnly(Tail(t))

\* .replace(/\n/g, ' ')
RECURSIVE ReplaceNewlines(_)
ReplaceNewlines(t) ==
    IF t = <<>> THEN <<>>
    ELSE << IF Head(t) = "\n" THEN " " ELSE Head(t) >> \o ReplaceNewlines(Tail(t))

\* One row of the body: name, flattened text and new Date().toLocaleString().
Row(img, now) ==
    FileName(img) \o << "\t" >> \o ReplaceNewlines(TextOrEmpty(img.extractedText))
        \o << "\t" >> \o now

\* rows.join("\n")
RECURSIVE Join(_)
Join(rows) ==
    IF rows = <<>> THEN <<>>
    ELSE IF Len(rows) = 1 THEN rows[1]
    ELSE rows[1] \o << "\n" >> \o Join(Tail(rows))

\* images.filter(img => img.status === 'completed')
Completed(imgs) ==
    LET keep(img) == img.status = "completed" IN SelectSeq(imgs, keep)

\* The text copyAllForExcel hands to copyToClipboard, None when it returns
\* before that; nows[k] is the time read for the k-th row.
ExportText(imgs, nows) ==
    LET completed == Completed(imgs)
    IN  IF Len(completed) = 0 THEN None
        ELSE Some(Header \o Join([k \in 1..Len(completed) |->
                                     Row(completed[k], nows[k])]))

\* ------------------------------------------------------------------ state
VARIABLES
    images,        \* useState<ImageFile[]>
    isProcessing,  \* useState(false)
    showSettings,  \* useState(false)
    sheetUrl,      \* useState(localStorage google_sheet_url || '')
    autoSync,      \* useState(localStorage auto_sync === 'true')
    urlError,      \* useState(false)
    localStorage,  \* the two persisted keys
    apiKey,        \* process.env.API_KEY, fixed for the life of the page
    nextId,        \* ids handed out so far + 1
    released,      \* previewUrls released (revoked, or gone with the
                   \* document), with counts
    inflight,      \* fetch calls that have not settled
    pc,            \* where the running processAll is suspended
    pending,       \* the rest of pendingImages, as captured at pass start
    cur,           \* the img argument of the running processImage
    passAutoSync,  \* autoSync as closed over by the running processAll
    passUrl,       \* sheetUrl as closed over by the running processAll
    clipboard,     \* the text last written by navigator.clipboard.writeText
    copyFeedback,  \* useState(false)
    commands,      \* user commands handled so far
    prefLog,       \* history: "loaded", then "set" once a preference is
                   \* changed, then "restored" once the page is loaded again
    passLog        \* history: how each recognition of the running pass settled

vars == << images, isProcessing, showSettings, sheetUrl, autoSync, urlError,
           localStorage, apiKey, nextId, released, inflight, pc, pending, cur,
           passAutoSync, passUrl, clipboard, copyFeedback, commands, prefLog,
           passLog >>

prefVars == << showSettings, sheetUrl, autoSync, urlError, localStorage >>
passVars == << isProcessing, pc, pending, cur, passAutoSync, passUrl, passLog >>
itemVars == << nextId, released >>
exportVars == << clipboard, copyFeedback >>

\* passLog maps the ids of the running pass's pendingImages to Unsettled or
\* to the settled result of their recognition; it is empty between passes.
Unsettled == [settled |-> FALSE]
Settled(r) == [settled |-> TRUE, ok |-> r.ok, value |-> r.value]
EmptyLog == [i \in {} |-> Unsettled]

\* Variant: the flag is written as a digit.
BoolString_Numeric(b) == IF b THEN "1" ELSE "0"

\* String(autoSync)
BoolString(b) == IF b THEN "true" ELSE "false"

\* localStorage.getItem('google_sheet_url') || ''
LoadUrl(stored) == IF FalsyText(stored) THEN <<>> ELSE stored.val

\* localStorage.getItem('auto_sync') === 'true'
LoadAutoSync(stored) == stored = "true"

Init ==
    /\ \E storedUrl \in {None} \cup {Some(u) : u \in Urls},
          storedAuto \in {Undefined, "true", "false"} :
          /\ sheetUrl = LoadUrl(storedUrl)
          /\ autoSync = LoadAutoSync(storedAuto)
    /\ localStorage = [google_sheet_url |-> sheetUrl,
                       auto_sync |-> BoolString(autoSync)]
    /\ apiKey \in ApiKeys
    /\ images = <<>>
    /\ isProcessing = FALSE
    /\ showSettings = FALSE
    /\ urlError = FALSE
    /\ nextId = 1
    /\ released = [i \in 1..MaxItems |-> 0]
    /\ inflight = <<>>
    /\ pc = "idle"
    /\ pending = <<>>
    /\ cur = NoImage
    /\ passAutoSync = FALSE
    /\ passUrl = <<>>
    /\ passLog = EmptyLog
    /\ clipboard = None
    /\ copyFeedback = FALSE
    /\ commands = 0
    /\ prefLog = "loaded"

\* ------------------------------------------------------------------ store
\* handleFileChange: n files picked; each gets a fresh id and previewUrl.
handleFileChange(n) ==
    /\ UNCHANGED prefLog
    /\ UNCHANGED exportVars
    /\ commands < MaxCommands /\ commands' = commands + 1
    /\ n \in 1..(MaxItems + 1 - nextId)
    /\ images' = images \o [k \in 1..n |-> NewImage(nextId + k - 1)]
    /\ nextId' = nextId + n
    /\ UNCHANGED << released, inflight, apiKey >>
    /\ UNCHANGED prefVars
    /\ UNCHANGED passVars

\* The ids that Math.random().toString(36).substring(7) can give to n files:
\* nothing compares a draw with the ids already handed out.
DrawnIds(n) == [1..n -> 1..MaxItems]

\* handleFileChange, with the ids its calls of Math.random() produce.
handleFileChangeDrawn(ids) ==
    /\ UNCHANGED prefLog
    /\ UNCHANGED exportVars
    /\ commands < MaxCommands /\ commands' = commands + 1
    /\ Len(ids) \in 1..(MaxItems + 1 - nextId)
    /\ images' = images \o [k \in 1..Len(ids) |->
                                [NewImage(nextId + k - 1) EXCEPT !.id = ids[k]]]
    /\ nextId' = nextId + Len(ids)
    /\ UNCHANGED << released, inflight, apiKey >>
    /\ UNCHANGED prefVars
    /\ UNCHANGED passVars

\* removeImage(id), from the remove button of a listed item.
removeImage(i) ==
    /\ UNCHANGED prefLog
    /\ UNCHANGED exportVars
    /\ commands < MaxCommands /\ commands' = commands + 1
    /\ i \in Ids(images)
    /\ released' = [released EXCEPT ![Find(images, i).previewUrl] = @ + 1]
    /\ images' = WithoutId(images, i)
    /\ UNCHANGED << nextId, inflight, apiKey >>
    /\ UNCHANGED prefVars
    /\ UNCHANGED passVars

\* The clear-all button, shown while the list is not empty: setImages([]).
clearAll ==
    /\ UNCHANGED prefLog
    /\ UNCHANGED exportVars
    /\ commands < MaxCommands /\ commands' = commands + 1
    /\ images # <<>>
    /\ images' = <<>>
    /\ UNCHANGED << nextId, released, inflight, apiKey >>
    /\ UNCHANGED prefVars
    /\ UNCHANGED passVars

\* ------------------------------------------------------------------ preferences
\* The settings button: setShowSettings(!showSettings).
toggleSettings ==
    /\ UNCHANGED prefLog
    /\ UNCHANGED exportVars
    /\ commands < MaxCommands /\ commands' = commands + 1
    /\ showSettings' = ~showSettings
    /\ UNCHANGED << sheetUrl, autoSync, urlError, localStorage >>
    /\ UNCHANGED << images, inflight, apiKey >>
    /\ UNCHANGED itemVars
    /\ UNCHANGED passVars

\* The endpoint field of the settings panel, with the effect on [sheetUrl].
setSheetUrl(u) ==
    /\ prefLog' = IF prefLog = "loaded" THEN "set" ELSE prefLog
    /\ UNCHANGED exportVars
    /\ commands < MaxCommands /\ commands' = commands + 1
    /\ showSettings
    /\ u # sheetUrl
    /\ sheetUrl' = u
    /\ localStorage' = [localStorage EXCEPT !.google_sheet_url = u]
    /\ urlError' = IF Trim(u) # <<>> THEN FALSE ELSE urlError
    /\ UNCHANGED << showSettings, autoSync >>
    /\ UNCHANGED << images, inflight, apiKey >>
    /\ UNCHANGED itemVars
    /\ UNCHANGED passVars

\* The auto-sync switch of the settings panel, with the effect on [autoSync].
toggleAutoSync ==
    /\ prefLog' = IF prefLog = "loaded" THEN "set" ELSE prefLog
    /\ UNCHANGED exportVars
    /\ commands < MaxCommands /\ commands' = commands + 1
    /\ showSettings
    /\ autoSync' = ~autoSync
    /\ localStorage' = [localStorage EXCEPT !.auto_sync = BoolString(~autoSync)]
    /\ UNCHANGED << showSettings, sheetUrl, urlError >>
    /\ UNCHANGED << images, inflight, apiKey >>
    /\ UNCHANGED itemVars
    /\ UNCHANGED passVars

\* The object urls the browser has released once the document is unloaded.
Unloaded(rel, next) ==
    [h \in DOMAIN rel |-> IF h < next /\ rel[h] = 0 THEN 1 ELSE rel[h]]

\* The page is loaded again: the component state is built anew, the two
\* preferences from localStorage, and the mount effects write them back.
\* Requests in flight and the running pass end with the old document.
reload ==
    /\ commands < MaxCommands /\ commands' = commands + 1
    /\ prefLog' = IF prefLog = "set" THEN "restored" ELSE prefLog
    /\ sheetUrl' = LoadUrl(Some(localStorage.google_sheet_url))
    /\ autoSync' = LoadAutoSync(localStorage.auto_sync)
    /\ localStorage' = [google_sheet_url |-> sheetUrl',
                        auto_sync |-> BoolString(autoSync')]
    /\ images' = <<>>
    /\ isProcessing' = FALSE
    /\ showSettings' = FALSE
    /\ urlError' = FALSE
    /\ copyFeedback' = FALSE
    /\ released' = Unloaded(released, nextId)
    /\ inflight' = <<>>
    /\ pc' = "idle"
    /\ pending' = <<>>
    /\ cur' = NoImage
    /\ passAutoSync' = FALSE
    /\ passUrl' = <<>>
    /\ passLog' = EmptyLog
    /\ UNCHANGED << apiKey, nextId, clipboard >>

\* ------------------------------------------------------------------ sync
\* A fetch that has not settled.  auto: awaited by the running processImage.
Fetch(img, target, auto) ==
    [id |-> img.id, url |-> target, text |-> img.extractedText, auto |-> auto]

ManualInflight == Len(SelectSeq(inflight, LAMBDA f : ~f.auto))

\* The views' condition for showing an item's sync button: the grid shows it
\* for completed items only, the table for every row.
SyncButtonShown(view, img) ==
    IF view = "grid" THEN img.status = "completed" ELSE TRUE

\* Variant: the endpoint is tested without trimming it.
NoTarget_Untrimmed(url) == url = <<>>

\* const targetUrl = sheetUrl.trim(); if (!targetUrl) ...
NoTarget(url) == Trim(url) = <<>>

\* syncToSheet(img) from an item's sync button, up to the await of fetch.
syncToSheet(k, view) ==
    /\ UNCHANGED prefLog
    /\ UNCHANGED exportVars
    /\ commands < MaxCommands /\ commands' = commands + 1
    /\ k \in 1..Len(images)
    /\ SyncButtonShown(view, images[k])
    /\ IF NoTarget(sheetUrl)
       THEN /\ urlError' = TRUE
            /\ showSettings' = TRUE
            /\ UNCHANGED << images, inflight >>
       ELSE /\ ManualInflight < MaxInflight
            /\ images' = SetSyncStatus(images, images[k].id, "syncing")
            /\ inflight' = Append(inflight, Fetch(images[k], Trim(sheetUrl), FALSE))
            /\ UNCHANGED << urlError, showSettings >>
    /\ UNCHANGED << sheetUrl, autoSync, localStorage, apiKey >>
    /\ UNCHANGED itemVars
    /\ UNCHANGED passVars

\* Variant: the catch records the dispatch as synced too.
SettledStatus_AlwaysSynced(ok) == "synced"

\* 'synced' after the awaited fetch resolves, 'failed' in the catch.
SettledStatus(ok) == IF ok THEN "synced" ELSE "failed"

\* ------------------------------------------------------------------ batch pass
\* Variant: the guard tests the list only.
ProcessAllReturns_NoBusyCheck(imgs, busy) == Len(imgs) = 0

\* if (images.length === 0 || isProcessing) return;
ProcessAllReturns(imgs, busy) == Len(imgs) = 0 \/ busy

\* Variant: the test reads the preferences as they are now.
AutoSyncWanted_Current(auto, url) == autoSync /\ Trim(sheetUrl) # <<>>

\* Variant: the endpoint test is inverted.
AutoSyncWanted_Inverted(auto, url) == auto /\ Trim(url) = <<>>

\* Variant: the endpoint is not tested.
AutoSyncWanted_IgnoresUrl(auto, url) == auto

\* if (autoSync && sheetUrl.trim())
AutoSyncWanted(auto, url) == auto /\ Trim(url) # <<>>

\* Variant: the flag is left set when the loop is over.
IsProcessingAfterLoop_StillSet == TRUE

\* setIsProcessing(false), after the loop of processAll.
IsProcessingAfterLoop == FALSE

\* The loop of processAll from its next iteration on, with the values the
\* pass closed over: the head of the rest is handed to processImage, which
\* marks it processing and starts recognition; with nothing left,
\* setIsProcessing(false).
Iterate(imgs, rest, auto, url, log) ==
    IF rest = <<>>
    THEN /\ images' = imgs
         /\ passLog' = EmptyLog
         /\ isProcessing' = IsProcessingAfterLoop
         /\ pc' = "idle"
         /\ cur' = NoImage
         /\ pending' = <<>>
         /\ passAutoSync' = FALSE
         /\ passUrl' = <<>>
    ELSE /\ images' = MarkProcessing(imgs, Head(rest).id)
         /\ isProcessing' = TRUE
         /\ pc' = "ocr"
         /\ cur' = Head(rest)
         /\ pending' = Tail(rest)
         /\ passAutoSync' = auto
         /\ passUrl' = url
         /\ passLog' = log

\* processAll, from the batch button, up to its first await.
processAll ==
    /\ UNCHANGED prefLog
    /\ UNCHANGED exportVars
    /\ IF ProcessAllReturns(images, isProcessing)
       THEN UNCHANGED << images, isProcessing, pc, cur, pending, passAutoSync,
                         passUrl, passLog, commands >>
       ELSE /\ commands < MaxCommands /\ commands' = commands + 1
            /\ Iterate(images, PendingImages(images), autoSync, sheetUrl,
                    [i \in Ids(PendingImages(images)) |-> Unsettled])
    /\ UNCHANGED << inflight, apiKey >>
    /\ UNCHANGED prefVars
    /\ UNCHANGED itemVars

\* Variant: the failure leaves processImage and ends the loop.
RestAfterFailure_Aborts(rest) == <<>>

\* processImage catches the failure of its recognition, so the loop of
\* processAll goes on with the rest of pendingImages.
RestAfterFailure(rest) == rest

\* The recognition awaited by processImage settles: the rest of processImage
\* up to its next await, or to the start of the next item's recognition.
recognitionSettles(r) ==
    /\ UNCHANGED prefLog
    /\ UNCHANGED exportVars
    /\ UNCHANGED commands
    /\ pc = "ocr"
    /\ LET updatedImg == UpdatedImg(cur, r.value)
           log == [passLog EXCEPT ![cur.id] = Settled(r)]
       IN  /\ IF r.ok
              THEN IF AutoSyncWanted(passAutoSync, passUrl)
                   THEN IF NoTarget(passUrl)
                        THEN /\ urlError' = TRUE
                             /\ showSettings' = TRUE
                             /\ UNCHANGED inflight
                             /\ Iterate(ApplyCompleted(images, updatedImg), pending,
                                        passAutoSync, passUrl, log)
                        ELSE /\ images' = SetSyncStatus(
                                    ApplyCompleted(images, updatedImg),
                                    updatedImg.id, "syncing")
                             /\ inflight' = Append(inflight,
                                    Fetch(updatedImg, Trim(passUrl), TRUE))
                             /\ pc' = "sync"
                             /\ cur' = updatedImg
                             /\ passLog' = log
                             /\ UNCHANGED << urlError, showSettings, isProcessing,
                                             pending, passAutoSync, passUrl >>
                   ELSE /\ Iterate(ApplyCompleted(images, updatedImg), pending,
                                   passAutoSync, passUrl, log)
                        /\ UNCHANGED << urlError, showSettings, inflight >>
              ELSE /\ Iterate(MarkError(images, cur.id, r.value),
                              RestAfterFailure(pending), passAutoSync, passUrl, log)
                   /\ UNCHANGED << urlError, showSettings, inflight >>
    /\ UNCHANGED << sheetUrl, autoSync, localStorage, apiKey >>
    /\ UNCHANGED itemVars

\* A fetch settles: the rest of syncToSheet and, for the sync awaited by
\* processImage, the loop of processAll up to its next await.
fetchSettles(k, ok) ==
    /\ UNCHANGED prefLog
    /\ UNCHANGED exportVars
    /\ UNCHANGED commands
    /\ k \in 1..Len(inflight)
    /\ inflight' = RemoveAt(inflight, k)
    /\ LET f == inflight[k]
           imgs == SetSyncStatus(images, f.id, SettledStatus(ok))
       IN  IF f.auto
           THEN Iterate(imgs, pending, passAutoSync, passUrl, passLog)
           ELSE /\ images' = imgs
                /\ UNCHANGED << isProcessing, pc, pending, cur, passAutoSync,
                                passUrl, passLog >>
    /\ UNCHANGED apiKey
    /\ UNCHANGED prefVars
    /\ UNCHANGED itemVars

\* ------------------------------------------------------------------ system
Next ==
    \/ \E n \in 1..MaxItems : handleFileChange(n)
    \/ \E i \in 1..MaxItems : removeImage(i)
    \/ clearAll
    \/ toggleSettings
    \/ \E u \in Urls : setSheetUrl(u)
    \/ toggleAutoSync
    \/ reload
    \/ \E k \in 1..MaxItems, view \in {"grid", "table"} : syncToSheet(k, view)
    \/ processAll
    \/ \E r \in Recognitions(apiKey) : recognitionSettles(r)
    \/ \E k \in 1..(MaxInflight + 1), ok \in BOOLEAN : fetchSettles(k, ok)

Spec == Init /\ [][Next]_vars

\* Every recognition call and every fetch settles in the end.
Settling ==
    /\ WF_vars(\E r \in Recognitions(apiKey) : recognitionSettles(r))
    /\ \A k \in 1..(MaxInflight + 1) :
           WF_vars(\E ok \in BOOLEAN : fetchSettles(k, ok))

FairSpec == Spec /\ Settling

\* The same system with the ids as Math.random() draws them.
NextDrawnIds ==
    \/ \E n \in 1..MaxItems : \E ids \in DrawnIds(n) : handleFileChangeDrawn(ids)
    \/ \E i \in 1..MaxItems : removeImage(i)
    \/ clearAll
    \/ toggleSettings
    \/ \E u \in Urls : setSheetUrl(u)
    \/ toggleAutoSync
    \/ reload
    \/ \E k \in 1..MaxItems, view \in {"grid", "table"} : syncToSheet(k, view)
    \/ processAll
    \/ \E r \in Recognitions(apiKey) : recognitionSettles(r)
    \/ \E k \in 1..(MaxInflight + 1), ok \in BOOLEAN : fetchSettles(k, ok)

SpecDrawnIds == Init /\ [][NextDrawnIds]_vars

\* ------------------------------------------------------------------ export of a store
\* What new Date().toLocaleString() returns in the runs explored.
Timestamps == { << "t", "1" >>, << "t", "2" >> }

\* Texts of completed items in the stores explored.
ExportTexts == { << "a", "\n", "b", "\n", "c" >>, << "\n", "\n" >>, << "d" >> }

\* The states in which a pass leaves the i-th file picked: not yet taken,
\* failed, or completed with a text.
ItemStates(i) ==
    { NewImage(i), ToError(ToProcessing(NewImage(i)), "Internal API Error") }
    \cup { UpdatedImg(NewImage(i), Some(t)) : t \in ExportTexts }

\* The stores left by picking up to MaxItems files, running passes and
\* removing items: the files still listed, in the order picked.
ExportStores ==
    LET all == UNION { ItemStates(i) : i \in 1..MaxItems }
    IN  UNION { { s \in [1..n -> all] :
                    \A k, j \in 1..n : k < j => s[k].previewUrl < s[j].previewUrl }
                : n \in 0..MaxItems }

\* The page between passes, with such a store.
ExportInit ==
    /\ images \in ExportStores
    /\ sheetUrl = <<>>
    /\ autoSync = FALSE
    /\ localStorage = [google_sheet_url |-> sheetUrl,
                       auto_sync |-> BoolString(autoSync)]
    /\ apiKey \in ApiKeys
    /\ isProcessing = FALSE
    /\ showSettings = FALSE
    /\ urlError = FALSE
    /\ nextId = MaxItems + 1
    /\ released = [i \in 1..MaxItems |->
                      IF \E k \in 1..Len(images) : images[k].previewUrl = i
                      THEN 0 ELSE 1]
    /\ inflight = <<>>
    /\ pc = "idle"
    /\ pending = <<>>
    /\ cur = NoImage
    /\ passAutoSync = FALSE
    /\ passUrl = <<>>
    /\ passLog = EmptyLog
    /\ clipboard = None
    /\ copyFeedback = FALSE
    /\ commands = 0
    /\ prefLog = "loaded"

\* copyAllForExcel, with copyToClipboard: written says whether writeText
\* resolved (true) or rejected (false).
copyAllForExcel(nows, written) ==
    /\ UNCHANGED prefLog
    /\ Len(nows) = Len(Completed(images))
    /\ LET text == ExportText(images, nows)
       IN  IF text.some /\ written
           THEN clipboard' = text /\ copyFeedback' = TRUE
           ELSE UNCHANGED << clipboard, copyFeedback >>
    /\ UNCHANGED << images, inflight, apiKey, commands >>
    /\ UNCHANGED prefVars
    /\ UNCHANGED itemVars
    /\ UNCHANGED passVars

\* setTimeout(() => setCopyFeedback(false), 2000)
copyFeedbackExpires ==
    /\ UNCHANGED prefLog
    /\ copyFeedback
    /\ copyFeedback' = FALSE
    /\ UNCHANGED << images, inflight, apiKey, commands, clipboard >>
    /\ UNCHANGED prefVars
    /\ UNCHANGED itemVars
    /\ UNCHANGED passVars

NextExport ==
    \/ \E n \in 0..MaxItems : \E nows \in [1..n -> Timestamps], written \in BOOLEAN :
          copyAllForExcel(nows, written)
    \/ copyFeedbackExpires

SpecExport == ExportInit /\ [][NextExport]_vars

\* ------------------------------------------------------------------ properties
Has(imgs, i) == i \in Ids(imgs)
Item(imgs, i) == imgs[CHOOSE k \in 1..Len(imgs) : imgs[k].id = i]

\* An endpoint that is empty or only spaces.
Blank(u) == \A n \in 1..Len(u) : u[n] = " "

\* The recognition awaited by the pass succeeds in this step.
RecognitionSucceeds == \E r \in Recognitions(apiKey) : r.ok /\ recognitionSettles(r)

\* The syncs in flight that the pass dispatched.
AutoFetches == SelectSeq(inflight, LAMBDA f : f.auto)

\* The recognition of cur, an item still in the store, succeeds in this step.
CurCompletes ==
    /\ pc = "ocr"
    /\ Has(images, cur.id) /\ Has(images', cur.id)
    /\ Item(images, cur.id).status = "processing"
    /\ Item(images', cur.id).status = "completed"

\* C1: when the recognition of an item that was Failed with an error message
\* at the start of the pass succeeds, the item is left Completed with no
\* errorDetail, and with syncState Idle (or Syncing, when the pass's own
\* auto-sync is dispatched in the same step).
C1_RerunClearsError ==
    [][ (CurCompletes /\ cur.status = "error" /\ cur.error # Undefined)
        => /\ Item(images', cur.id).error = Undefined
           /\ Item(images', cur.id).syncStatus =
                 IF passAutoSync /\ ~Blank(passUrl) THEN "syncing" ELSE "idle"
      ]_vars

\* C2: in every reachable state every item of the store has extractedText
\* defined if and only if its recognitionState is Completed.
C2_TextIffCompleted ==
    \A k \in 1..Len(images) :
        images[k].extractedText.some <=> images[k].status = "completed"

\* A store holding a Completed item with its text beside a Failed item
\* without text, after a pass that processed both.
C2_Witness ==
    \E k, j \in 1..Len(images) :
        /\ images[k].status = "completed" /\ images[k].extractedText.some
        /\ images[j].status = "error" /\ ~images[j].extractedText.some

\* C3: in every reachable state every item has errorDetail present if and
\* only if its recognitionState is Failed or its syncState is SyncFailed.
C3_ErrorIffFailed ==
    \A k \in 1..Len(images) :
        (images[k].error # Undefined)
            <=> (images[k].status = "error" \/ images[k].syncStatus = "failed")

\* C4: an item's syncState moves to Syncing only while the item's
\* recognitionState is Completed.
C4_SyncingOnlyWhenCompleted ==
    [][ \A i \in Ids(images) \cap Ids(images') :
            (Item(images, i).syncStatus # "syncing"
               /\ Item(images', i).syncStatus = "syncing")
            => Item(images', i).status = "completed"
      ]_vars

\* C5: at every instant at most one item of the store is Processing, and it
\* is the item whose recognition call, the only one in flight, the pass is
\* awaiting.
C5_OneProcessing ==
    /\ Cardinality({ k \in 1..Len(images) : images[k].status = "processing" }) <= 1
    /\ \A k \in 1..Len(images) :
           images[k].status = "processing" => pc = "ocr" /\ cur.id = images[k].id

\* A pass awaiting the recognition of its second item, the first one settled,
\* while a manual sync is in flight.
C5_Witness ==
    /\ pc = "ocr"
    /\ inflight # <<>>
    /\ \E k, j \in 1..Len(images) :
           /\ images[k].status = "processing"
           /\ images[j].status \in {"completed", "error"}
           /\ passLog[images[j].id].settled

\* C6: a request to start a pass while a pass is in progress changes
\* nothing: no item, no recognition call, no second pass.
C6_NoReentry ==
    [][ (isProcessing /\ processAll) => UNCHANGED vars ]_vars

\* A pass in progress with items still to come, where the request is refused.
C6_Witness ==
    /\ isProcessing
    /\ pc = "ocr"
    /\ pending # <<>>
    /\ ProcessAllReturns(images, isProcessing)

\* The item carries the result o of its recognition.
Carries(item, o) ==
    IF o.ok
    THEN item.status = "completed" /\ item.extractedText = o.value
    ELSE item.status = "error" /\ item.error = o.value

C8_AutoSyncOnceBeforeNext ==
    /\ [](/\ Len(AutoFetches) <= 1
          /\ pc = "sync" <=> Len(AutoFetches) = 1
          /\ pc = "sync" => AutoFetches[1].id = cur.id)
    /\ [][ (RecognitionSucceeds /\ passAutoSync /\ ~Blank(passUrl))
           => /\ pc' = "sync"
              /\ cur'.id = cur.id
              /\ Len(inflight') = Len(inflight) + 1
              /\ SubSeq(inflight', 1, Len(inflight)) = inflight
              /\ inflight'[Len(inflight')].id = cur.id
              /\ inflight'[Len(inflight')].auto
         ]_vars

\* The pass is suspended on the sync of the item it has just completed,
\* with another item still to come.
C8_Witness ==
    /\ pc = "sync"
    /\ pending # <<>>
    /\ Len(AutoFetches) = 1
    /\ Has(images, cur.id)
    /\ Item(images, cur.id).status = "completed"
    /\ Item(images, cur.id).syncStatus = "syncing"

\* C9 as stated: in a pass started with auto-sync enabled and a blank
\* endpoint, a successful recognition raises the configuration error.
C9_MissingEndpointRaises ==
    [][ (RecognitionSucceeds /\ passAutoSync /\ Blank(passUrl))
        => urlError' /\ showSettings' ]_vars

\* C9 as amended: in a pass started with auto-sync enabled and a blank
\* endpoint, a successful recognition skips the sync silently: nothing is
\* dispatched, the configuration error and the settings panel are left as
\* they were, and the item is left Completed with syncState Idle.
C9_MissingEndpointSkips ==
    [][ (RecognitionSucceeds /\ passAutoSync /\ Blank(passUrl))
        => /\ inflight' = inflight
           /\ urlError' = urlError
           /\ showSettings' = showSettings
           /\ Has(images, cur.id)
              => /\ Item(images', cur.id).status = "completed"
                 /\ Item(images', cur.id).syncStatus = "idle"
      ]_vars

\* A pass started with auto-sync enabled and a blank endpoint has completed
\* an item and gone on: no error raised, nothing dispatched, item Idle.
C9_Witness ==
    /\ pc = "ocr"
    /\ passAutoSync /\ Blank(passUrl)
    /\ ~urlError /\ ~showSettings
    /\ inflight = <<>>
    /\ \E i \in DOMAIN passLog :
           /\ passLog[i].settled /\ passLog[i].ok
           /\ Has(images, i)
           /\ Item(images, i).status = "completed"
           /\ Item(images, i).syncStatus = "idle"

\* C10: no request is ever in flight to a blank endpoint, and a sync
\* requested from an item's button while the endpoint is blank dispatches
\* nothing, raises the configuration error and leaves every item as it was.
C10_BlankEndpointRejected ==
    /\ [](\A k \in 1..Len(inflight) : ~Blank(inflight[k].url))
    /\ [][ (Blank(sheetUrl)
              /\ \E k \in 1..Len(images), view \in {"grid", "table"} :
                    syncToSheet(k, view))
           => /\ urlError' /\ showSettings'
              /\ inflight' = inflight
              /\ images' = images
         ]_vars

\* A sync was requested with an endpoint of one space: the error is raised,
\* nothing is in flight and no item has left syncState Idle.
C10_Witness ==
    /\ sheetUrl = <<" ">>
    /\ urlError /\ showSettings
    /\ images # <<>>
    /\ inflight = <<>>
    /\ \A k \in 1..Len(images) : images[k].syncStatus = "idle"

\* The previewUrls of the listed items.
Previews(imgs) == { imgs[k].previewUrl : k \in 1..Len(imgs) }

\* C11: every preview handle allocated so far has been released exactly
\* once if its item is no longer in the store, and not at all while its
\* item is in the store.
C11_ReleasedExactlyOnce ==
    \A h \in 1..(nextId - 1) :
        released[h] = IF h \in Previews(images) THEN 0 ELSE 1

\* The pass starts a recognition in this step: it is suspended on a
\* recognition call that it was not suspended on before.
RecognitionStarts == pc' = "ocr" /\ (pc # "ocr" \/ cur' # cur)

\* C12: every recognition call the pass makes is for an item that is in the
\* store when the call is made: no call for an item removed before its turn.
C12_NoCallForRemoved ==
    [][ RecognitionStarts => Has(images, cur'.id) ]_vars

\* The recognition of cur, an item no longer in the store, settles.
RemovedSettles ==
    /\ pc = "ocr" /\ ~Has(images, cur.id)
    /\ \E r \in Recognitions(apiKey) : recognitionSettles(r)

\* C13: when the recognition of an item removed while the call was in
\* flight settles, with success or failure, the removed item is not put
\* back and no listed item changes, except that the item the pass goes on
\* to, if any, is marked Processing with its error cleared.
C13_RemovedResultDiscarded ==
    [][ RemovedSettles
        => /\ ~Has(images', cur.id)
           /\ Len(images') = Len(images)
           /\ \A k \in 1..Len(images) :
                 IF pc' = "ocr" /\ images[k].id = cur'.id
                 THEN images'[k] = [images[k] EXCEPT !.status = "processing",
                                                     !.error = Undefined]
                 ELSE images'[k] = images[k]
      ]_vars

\* The first item of a running pass was removed while its recognition was in
\* flight; the call has settled, the other item is listed and the pass has
\* gone on to it.
C13_Witness ==
    /\ pc = "ocr"
    /\ Has(images, cur.id)
    /\ \E i \in DOMAIN passLog :
           /\ i # cur.id
           /\ passLog[i].settled
           /\ ~Has(images, i)

\* C14: the store never holds two items with the same id; its order is the
\* order of insertion with the removed items deleted (the previewUrls, handed
\* out in insertion order, increase along the list); removing an id that is
\* not listed leaves the list as it is.
C14_UniqueIdsInsertionOrder ==
    /\ \A k, j \in 1..Len(images) : k # j => images[k].id # images[j].id
    /\ \A k, j \in 1..Len(images) :
           k < j => images[k].previewUrl < images[j].previewUrl
    /\ \A i \in (1..MaxItems) \ Ids(images) : WithoutId(images, i) = images

\* C15: a Completed item stays Completed with the same text in every step;
\* the pass makes no recognition call for an item that is Completed; and a
\* pass started when every listed item is Completed starts no recognition,
\* changes no item and is not left in progress.
C15_CompletedSkipped ==
    /\ [][ \A i \in Ids(images) \cap Ids(images') :
              Item(images, i).status = "completed"
              => /\ Item(images', i).status = "completed"
                 /\ Item(images', i).extractedText = Item(images, i).extractedText
         ]_vars
    /\ [][ (RecognitionStarts /\ Has(images, cur'.id))
           => /\ cur'.status # "completed"
              /\ Item(images, cur'.id).status # "completed"
         ]_vars
    /\ [][ (/\ processAll
            /\ images # <<>> /\ ~isProcessing
            /\ \A k \in 1..Len(images) : images[k].status = "completed")
           => /\ images' = images
              /\ pc' = "idle" /\ cur' = NoImage
              /\ ~isProcessing'
         ]_vars

\* A pass is recognising an item while the store lists a Completed item,
\* with its text, that the pass did not take.
C15_Witness ==
    /\ pc = "ocr"
    /\ Has(images, cur.id)
    /\ \E k \in 1..Len(images) :
           /\ images[k].status = "completed"
           /\ images[k].extractedText.some
           /\ images[k].id \notin DOMAIN passLog

\* C16: when a dispatch fails, the item it was for, if listed, gets syncState
\* SyncFailed and keeps every other field; no other item changes; a pass
\* that did not await the dispatch is left as it was, and a pass that
\* awaited it goes on to its next item (which is marked Processing) or, with
\* none left, ends.
C16_SyncFailureScoped ==
    [][ \A k \in 1..Len(inflight) :
          fetchSettles(k, FALSE)
          => LET f == inflight[k]
                 goesOn == f.auto /\ pending # <<>>
             IN  /\ Len(images') = Len(images)
                 /\ \A j \in 1..Len(images) :
                       LET base == IF goesOn /\ images[j].id = Head(pending).id
                                   THEN [images[j] EXCEPT !.status = "processing",
                                                          !.error = Undefined]
                                   ELSE images[j]
                       IN  images'[j] = IF images[j].id = f.id
                                        THEN [base EXCEPT !.syncStatus = "failed"]
                                        ELSE base
                 /\ IF f.auto
                    THEN IF pending = <<>>
                         THEN ~isProcessing' /\ pc' = "idle"
                         ELSE /\ isProcessing' /\ pc' = "ocr"
                              /\ cur' = Head(pending) /\ pending' = Tail(pending)
                    ELSE UNCHANGED passVars
      ]_vars

\* A pass with auto-sync has completed an item, the item's sync has failed,
\* and the pass is recognising the next item.
C16_Witness ==
    /\ pc = "ocr"
    /\ passAutoSync
    /\ inflight = <<>>
    /\ Has(images, cur.id)
    /\ \E i \in DOMAIN passLog :
           /\ passLog[i].settled /\ passLog[i].ok
           /\ Has(images, i)
           /\ Item(images, i).status = "completed"
           /\ Item(images, i).syncStatus = "failed"

\* C17: every dispatch that settles sets the syncState of its item, if
\* listed, to its own outcome, whatever else is in flight for that item and
\* whenever it was started: of overlapping dispatches the last to settle
\* decides.
C17_LastSettledWins ==
    [][ \A k \in 1..Len(inflight), ok \in BOOLEAN :
          (fetchSettles(k, ok) /\ Has(images, inflight[k].id))
          => Item(images', inflight[k].id).syncStatus =
                IF ok THEN "synced" ELSE "failed"
      ]_vars

\* Two dispatches for one item overlapped: one has settled as failed (the
\* item shows SyncFailed) while the other, started before that, is still in
\* flight.
C17_Witness ==
    \E k \in 1..Len(inflight) :
        /\ Has(images, inflight[k].id)
        /\ Item(images, inflight[k].id).syncStatus = "failed"

\* s cut at every occurrence of the character sep.
RECURSIVE SplitOn(_, _)
SplitOn(s, sep) ==
    IF \A n \in 1..Len(s) : s[n] # sep THEN << s >>
    ELSE LET at == CHOOSE n \in 1..Len(s) :
                      s[n] = sep /\ \A m \in 1..(n - 1) : s[m] # sep
         IN  << SubSeq(s, 1, at - 1) >> \o SplitOn(SubSeq(s, at + 1, Len(s)), sep)

\* u is t with every newline replaced by a space.
Flattened(t, u) ==
    /\ Len(u) = Len(t)
    /\ \A n \in 1..Len(t) : u[n] = IF t[n] = "\n" THEN " " ELSE t[n]

\* The positions of the Completed items, and the n-th of them.
CompletedAt(imgs) == { k \in 1..Len(imgs) : imgs[k].status = "completed" }
NthCompleted(imgs, n) ==
    imgs[CHOOSE k \in CompletedAt(imgs) :
            Cardinality({ j \in CompletedAt(imgs) : j <= k }) = n]

\* C18: an export over a store with no Completed item writes nothing; over
\* any other store the text written has, line by line, the header and then
\* one line per Completed item in collection order, each made of three
\* tab-separated fields: the file name, the item's text with every newline
\* replaced by a space, and the timestamp read for that row.
C18_ExportRows ==
    [][ \A n \in 0..MaxItems : \A nows \in [1..n -> Timestamps] :
          copyAllForExcel(nows, TRUE)
          => IF CompletedAt(images) = {}
             THEN UNCHANGED << clipboard, copyFeedback >>
             ELSE /\ clipboard'.some
                  /\ LET lines == SplitOn(clipboard'.val, "\n")
                     IN  /\ Len(lines) = 1 + Cardinality(CompletedAt(images))
                         /\ lines[1] = << "label1", "\t", "label2", "\t", "label3" >>
                         /\ \A k \in 1..Cardinality(CompletedAt(images)) :
                               LET img == NthCompleted(images, k)
                                   fields == SplitOn(lines[k + 1], "\t")
                               IN  /\ Len(fields) = 3
                                   /\ fields[1] = FileName(img)
                                   /\ Flattened(img.extractedText.val, fields[2])
                                   /\ fields[3] = nows[k]
      ]_vars

\* An export was written for a store that lists a Failed item and then a
\* Completed item whose text has two newlines: the text written has the
\* header and one more line.
C18_Witness ==
    /\ clipboard.some
    /\ Len(images) = 2
    /\ images[1].status = "error"
    /\ images[2].status = "completed"
    /\ images[2].extractedText = Some(<< "a", "\n", "b", "\n", "c" >>)
    /\ Len(SplitOn(clipboard.val, "\n")) = 2

\* C19: setting the endpoint or the auto-sync flag makes that value the one
\* held by the page and the one a load of the page reads from storage; the
\* two values change in no other way; a reload leaves the page holding the
\* values it held before; and with nothing stored a load gives the empty
\* endpoint and auto-sync off.
C19_PreferencesRoundTrip ==
    /\ [][ \A u \in Urls :
              setSheetUrl(u)
              => /\ sheetUrl' = u
                 /\ LoadUrl(Some(localStorage'.google_sheet_url)) = u
         ]_vars
    /\ [][ toggleAutoSync
           => /\ autoSync' = ~autoSync
              /\ LoadAutoSync(localStorage'.auto_sync) = ~autoSync
         ]_vars
    /\ [][ (sheetUrl' # sheetUrl \/ autoSync' # autoSync)
           => (\E u \in Urls : setSheetUrl(u)) \/ toggleAutoSync
         ]_vars
    /\ [][ reload => sheetUrl' = sheetUrl /\ autoSync' = autoSync ]_vars
    /\ LoadUrl(None) = <<>>
    /\ LoadAutoSync(Undefined) = FALSE

\* A preference was changed, then the page was loaded again, and it holds
\* a padded endpoint and auto-sync on, the panel closed as after a load.
C19_Witness ==
    /\ prefLog = "restored"
    /\ sheetUrl = << " ", "u", " " >>
    /\ autoSync
    /\ ~showSettings
    /\ commands = 3

\* C20: a pass in progress always comes to an end, whatever the user does
\* meanwhile, and at the step that ends it no listed item is Processing.
C20_PassEnds ==
    /\ isProcessing ~> ~isProcessing
    /\ [][ (isProcessing /\ ~isProcessing')
           => \A k \in 1..Len(images') : images'[k].status # "processing"
         ]_vars

\* A pass over two items has ended with both still listed, one Completed
\* and one Failed, after a manual sync was requested meanwhile.
C20_Witness ==
    /\ ~isProcessing /\ pc = "idle"
    /\ Len(images) = 2
    /\ \E k, j \in 1..2 :
           /\ images[k].status = "completed"
           /\ images[j].status = "error"
    /\ \E k \in 1..2 : images[k].syncStatus \in {"synced", "failed"}

\* A request is dispatched in this step; it is the last one in flight.
Dispatches == Len(inflight') = Len(inflight) + 1
Dispatched == inflight'[Len(inflight')]

\* C21: every request dispatched is for an item that is in the store when
\* it is dispatched.
C21_NoSyncForAbsent ==
    [][ Dispatches => Has(images, Dispatched.id) ]_vars

\* A pass starts in this step.
PassStarts == ~isProcessing /\ isProcessing'

\* C22: a pass keeps the auto-sync flag and the endpoint of the moment it
\* was started until it ends, and when one of its recognitions succeeds a
\* sync is dispatched exactly if that flag was on and that endpoint not
\* blank, to that endpoint trimmed, whatever the two preferences are now.
C22_PassUsesStartPreferences ==
    /\ [][ PassStarts => passAutoSync' = autoSync /\ passUrl' = sheetUrl ]_vars
    /\ [][ (isProcessing /\ isProcessing')
           => passAutoSync' = passAutoSync /\ passUrl' = passUrl ]_vars
    /\ [][ RecognitionSucceeds
           => IF passAutoSync /\ ~Blank(passUrl)
              THEN /\ Dispatches
                   /\ Dispatched.id = cur.id
                   /\ Dispatched.url = Trim(passUrl)
              ELSE inflight' = inflight
         ]_vars

\* A pass started with auto-sync on and an endpoint is suspended on the
\* sync of an item while the flag is now off and the endpoint now blank.
C22_Witness ==
    /\ pc = "sync"
    /\ passAutoSync /\ ~Blank(passUrl)
    /\ ~autoSync
    /\ Len(AutoFetches) = 1
    /\ AutoFetches[1].url = << "u" >>

\* The items of imgs that are not Completed, in the order of imgs.
NotCompleted(imgs) == SelectSeq(imgs, LAMBDA img : img.status # "completed")

\* C23: a pass takes the items that are not Completed when it is started,
\* in collection order, and no other: each recognition it starts is for the
\* next of them, when it ends by itself each of them has been recognised,
\* and while it runs an item it did not take is not Processing and, unless
\* Completed before, is Idle.
C23_PassTakesStartItems ==
    /\ [][ PassStarts
           => /\ << cur' >> \o pending' = NotCompleted(images)
              /\ DOMAIN passLog' = Ids(NotCompleted(images))
         ]_vars
    /\ [][ (isProcessing /\ RecognitionStarts)
           => /\ pending # <<>>
              /\ cur' = Head(pending)
              /\ pending' = Tail(pending)
              /\ DOMAIN passLog' = DOMAIN passLog
         ]_vars
    /\ [][ (isProcessing /\ ~isProcessing' /\ ~reload)
           => /\ pending = <<>>
              /\ \A i \in DOMAIN passLog :
                    passLog[i].settled \/ (pc = "ocr" /\ i = cur.id)
         ]_vars
    /\ [](isProcessing
           => \A k \in 1..Len(images) :
                 images[k].id \notin DOMAIN passLog
                 => images[k].status \in {"idle", "completed"})

\* A pass that took one item has completed it and is suspended on its sync
\* while the store lists an item added after the pass was started, Idle.
C23_Witness ==
    /\ pc = "sync"
    /\ pending = <<>>
    /\ DOMAIN passLog = {cur.id}
    /\ Has(images, cur.id)
    /\ \E k \in 1..Len(images) :
           /\ images[k].id \notin DOMAIN passLog
           /\ images[k].status = "idle"

====
